---- MODULE Spec2Model ----
(***************************************************************************)
(* HYPERA: hyperparameter agents (learning rate, class weights) and the    *)
(* segmentation agent coordinator.                                         *)
(*                                                                         *)
(* Floating point values are modelled as exact rationals <<n, d>> in       *)
(* lowest terms with d > 0.  SAC actions are drawn from the integer points *)
(* of the action space [-1, 1], so that 3.0 ** a and 2.0 ** a are rational.*)
(***************************************************************************)
EXTENDS Integers, Sequences, FiniteSets, TLC

VARIABLES
    cls,                    \* class of the hyperparameter agent instance
    use_enhanced_state,     \* constructor flag of the hyperparameter agent
    current_lr,             \* LearningRateAgent.current_lr
    current_class_weights,  \* ClassWeightsAgent.current_class_weights
    epochs_since_update,    \* agent.epochs_since_update
    hyperparameters,        \* SharedStateManager: key -> value
    conflict_resolution,    \* SegmentationAgentCoordinator.conflict_resolution
    agent_weights,          \* SegmentationAgentCoordinator.agent_weights
    current_image,          \* state_manager.current_image
    agents,                 \* SegmentationAgentCoordinator.agents, by name
    agent_performance,      \* SegmentationAgentCoordinator.agent_performance
    agent_update_calls,     \* agent.update calls of the last update_agents
    current_segmentation,   \* what update_segmentation last stored
    features,               \* refine_segmentation: agent name -> refinement
    calls,                  \* update_agents calls followed so far
    agent_calls,            \* observe / decide / load calls of the last operation
    current_prediction,     \* state_manager.current_prediction
    files,                  \* checkpoint directory: file name -> contents
    segmentation_threshold, \* FGBalanceAgent.segmentation_threshold
    target_fg_ratio,        \* FGBalanceAgent.target_fg_ratio
    avg_fg_ratio,           \* FGBalanceAgent.avg_fg_ratio
    last_update_step,       \* FGBalanceAgent.last_update_step
    observation_history,    \* FGBalanceAgent.observation_history
    action_history,         \* FGBalanceAgent.action_history
    reward_history,         \* FGBalanceAgent.reward_history
    current_step,           \* state_manager.get_current_step()
    policy_updates,         \* optimizer.step() calls made by learn
    checkpoint,             \* the FGBalanceAgent checkpoint file
    updates,                \* update_hyperparameter calls made so far
    lastOp,                 \* name of the last operation that ran
    args,                   \* its arguments
    ret                     \* what it returned

hpVars == <<cls, use_enhanced_state, current_lr, current_class_weights,
            epochs_since_update, hyperparameters, updates>>
coVars == <<conflict_resolution, agent_weights, current_image, agents,
            agent_performance, agent_update_calls, current_segmentation,
            features, calls, agent_calls, current_prediction, files>>
fgVars == <<segmentation_threshold, target_fg_ratio, avg_fg_ratio,
            last_update_step, observation_history,
            action_history, reward_history, current_step, policy_updates,
            checkpoint>>
callVars == <<lastOp, args, ret>>
vars == <<cls, use_enhanced_state, current_lr, current_class_weights,
          epochs_since_update, hyperparameters, conflict_resolution,
          agent_weights, current_image, agents, agent_performance,
          agent_update_calls, current_segmentation, features, calls,
          agent_calls, current_prediction, files, checkpoint,
          segmentation_threshold, target_fg_ratio, avg_fg_ratio,
          last_update_step, observation_history,
          action_history, reward_history, current_step, policy_updates,
          updates, lastOp, args, ret>>

----------------------------------------------------------------------------
(* Bounds of the model *)

\* update_hyperparameter calls followed per behaviour
MaxUpdates == 2
\* largest value the epochs_since_update counter is followed to
MaxEsu == 15
\* largest epoch number passed to select_action
MaxEpoch == 2
\* most overfitting signals the shared state reports
MaxOvf == 2
\* longest metric history window looked at
MaxHist == 2

----------------------------------------------------------------------------
(* Exact rational arithmetic *)

Abs(x) == IF x < 0 THEN -x ELSE x

RECURSIVE GCD(_, _)
GCD(a, b) == IF b = 0 THEN a ELSE GCD(b, a % b)

Sign(x) == IF x < 0 THEN -1 ELSE 1

Rat(n, d) ==
    LET g == GCD(Abs(n), Abs(d))
    IN  <<Sign(d) * (n \div g), Abs(d) \div g>>

RatAdd(p, q) == Rat(p[1] * q[2] + q[1] * p[2], p[2] * q[2])
RatMul(p, q) == Rat(p[1] * q[1], p[2] * q[2])
RatDiv(p, q) == Rat(p[1] * q[2], p[2] * q[1])
RatLt(p, q)  == p[1] * q[2] < q[1] * p[2]
RatLeq(p, q) == p[1] * q[2] <= q[1] * p[2]
RatMax(p, q) == IF RatLt(p, q) THEN q ELSE p
RatMin(p, q) == IF RatLt(q, p) THEN q ELSE p

Zero == <<0, 1>>
One  == <<1, 1>>
Half == <<1, 2>>

RECURSIVE IntPow(_, _)
IntPow(b, k) == IF k = 0 THEN 1 ELSE b * IntPow(b, k - 1)

\* base ** a for an integer exponent a of either sign
Pow(b, a) == IF a >= 0 THEN <<IntPow(b, a), 1>> ELSE <<1, IntPow(b, -a)>>

\* np.clip(x, lo, hi) == minimum(maximum(x, lo), hi)
Clip(x, lo, hi) == RatMin(RatMax(x, lo), hi)

RECURSIVE RatSum(_)
RatSum(s) == IF s = <<>> THEN Zero ELSE RatAdd(s[1], RatSum(Tail(s)))

----------------------------------------------------------------------------
(* Return values *)

None == [kind |-> "None"]
Value(v) == [kind |-> "value", value |-> v]
NoAttr == <<>>

\* shared_state_manager.set_hyperparameter(key, value)
set_hyperparameter(hp, key, value) ==
    [k \in (DOMAIN hp) \cup {key} |-> IF k = key THEN value ELSE hp[k]]

\* the points of the SAC action space (-1.0, 1.0) the model draws
ActionSet == {-1, 0, 1}

----------------------------------------------------------------------------
(* LearningRateAgent *)

min_lr == <<1, 1000000>>
max_lr == <<1, 10>>
LR_patience == 3
LR_cooldown == 5
LR_update_frequency == 1
LR_state_dim == 20
LR_metrics_to_track == <<"loss", "val_loss", "dice_score">>

\* values of the initial_lr constructor argument
InitialLrs == {min_lr, <<1, 1000>>, max_lr}

\* faulty variant: the clip to [min_lr, max_lr] is left out
LR_action_to_hyperparameter_unclipped(lr, action) == RatMul(lr, Pow(3, action))

\* factor = 3.0 ** action; new_lr = np.clip(current_lr * factor, min_lr, max_lr)
LR_action_to_hyperparameter(lr, action) ==
    Clip(RatMul(lr, Pow(3, action)), min_lr, max_lr)

\* faulty variant: the relative change is computed after current_lr was overwritten
LR_update_hyperparameter_late_ratio(action) ==
    /\ cls = "LearningRateAgent"
    /\ updates < MaxUpdates
    /\ updates' = updates + 1
    /\ LET new_lr == LR_action_to_hyperparameter(current_lr, action)
           old_lr == current_lr
       IN  /\ current_lr' = new_lr
           /\ hyperparameters' =
                  set_hyperparameter(hyperparameters, "learning_rate", new_lr)
           /\ ret' = [kind |-> "audit", old_value |-> old_lr,
                      new_value |-> new_lr,
                      relative_change |-> RatDiv(new_lr, new_lr),
                      hyperparameter |-> "learning_rate"]
    /\ lastOp' = "update_hyperparameter"
    /\ args' = <<action>>
    /\ UNCHANGED <<cls, use_enhanced_state, current_class_weights,
                   epochs_since_update>>
    /\ UNCHANGED coVars
    /\ UNCHANGED fgVars

LR_update_hyperparameter(action) ==
    /\ cls = "LearningRateAgent"
    /\ updates < MaxUpdates
    /\ updates' = updates + 1
    /\ LET new_lr == LR_action_to_hyperparameter(current_lr, action)
           relative_change == RatDiv(new_lr, current_lr)
           old_lr == current_lr
       IN  /\ current_lr' = new_lr
           /\ hyperparameters' =
                  set_hyperparameter(hyperparameters, "learning_rate", new_lr)
           /\ ret' = [kind |-> "audit", old_value |-> old_lr,
                      new_value |-> new_lr,
                      relative_change |-> relative_change,
                      hyperparameter |-> "learning_rate"]
    /\ lastOp' = "update_hyperparameter"
    /\ args' = <<action>>
    /\ UNCHANGED <<cls, use_enhanced_state, current_class_weights,
                   epochs_since_update>>
    /\ UNCHANGED coVars
    /\ UNCHANGED fgVars

\* _process_action: an array action contributes its first component
LR_process_action(action) == LR_action_to_hyperparameter(current_lr, action[1])

----------------------------------------------------------------------------
(* ClassWeightsAgent *)

min_weight == <<1, 2>>
max_weight == <<5, 1>>
num_classes == 2
CW_patience == 8
CW_cooldown == 15
CW_update_frequency == 10
CW_state_dim == 24
CW_metrics_to_track == <<"loss", "val_loss", "dice_score", "class_dice">>

Classes == 1..num_classes

\* values of the initial_class_weights constructor argument (default: all 1.0)
InitialClassWeights ==
    {<<One, One>>, <<Half, <<3, 1>>>>, <<<<2, 1>>, <<2, 1>>>>}

\* the ndarray actions handed to the agent: every action of the right length,
\* and some that are too short or too long
ActionArrays ==
    [Classes -> ActionSet] \cup {<<>>, <<1>>, <<-1>>, <<1, -1, 1>>, <<0, 0, -1>>}

\* faulty variant: an action that is too long keeps its last num_classes
\* components
CW_repair_action_keep_tail(action) ==
    IF Len(action) # num_classes
    THEN IF Len(action) < num_classes
         THEN action \o [i \in 1..(num_classes - Len(action)) |-> 0]
         ELSE SubSeq(action, Len(action) - num_classes + 1, Len(action))
    ELSE action

\* an action of the wrong length is zero-padded or truncated to num_classes
CW_repair_action(action) ==
    IF Len(action) # num_classes
    THEN IF Len(action) < num_classes
         THEN action \o [i \in 1..(num_classes - Len(action)) |-> 0]
         ELSE SubSeq(action, 1, num_classes)
    ELSE action

\* faulty variant: the factor is 2.0 ** -action
CW_clipped_weights_inverted(weights, action) ==
    LET a == CW_repair_action(action)
    IN  [i \in Classes |->
            Clip(RatMul(weights[i], Pow(2, -a[i])), min_weight, max_weight)]

\* new_weights = np.clip(current_weights * 2.0 ** action, min_weight, max_weight)
CW_clipped_weights(weights, action) ==
    LET a == CW_repair_action(action)
    IN  [i \in Classes |->
            Clip(RatMul(weights[i], Pow(2, a[i])), min_weight, max_weight)]

\* np.mean(x)
CW_mean(x) == RatDiv(RatSum(x), <<Len(x), 1>>)

\* faulty variant: the weights are scaled to sum 1 instead of num_classes
CW_normalize_unit_sum(new_weights) ==
    IF RatLt(Zero, CW_mean(new_weights))
    THEN LET scale == RatDiv(One, RatSum(new_weights))
         IN  [i \in Classes |-> RatMul(new_weights[i], scale)]
    ELSE new_weights

\* if np.mean(new_weights) > 0: new_weights *= num_classes / np.sum(new_weights)
CW_normalize(new_weights) ==
    IF RatLt(Zero, CW_mean(new_weights))
    THEN LET scale == RatDiv(<<num_classes, 1>>, RatSum(new_weights))
         IN  [i \in Classes |-> RatMul(new_weights[i], scale)]
    ELSE new_weights

CW_action_to_hyperparameter(weights, action) ==
    CW_normalize(CW_clipped_weights(weights, action))

CW_update_hyperparameter(action) ==
    /\ cls = "ClassWeightsAgent"
    /\ updates < MaxUpdates
    /\ updates' = updates + 1
    /\ LET new_weights ==
               CW_action_to_hyperparameter(current_class_weights, action)
           current_weights == current_class_weights
           relative_changes ==
               [i \in Classes |-> RatDiv(new_weights[i], current_weights[i])]
           old_weights == current_class_weights
       IN  /\ current_class_weights' = new_weights
           /\ hyperparameters' =
                  set_hyperparameter(hyperparameters, "class_weights",
                                     new_weights)
           /\ ret' = [kind |-> "audit", old_value |-> old_weights,
                      new_value |-> new_weights,
                      relative_change |-> relative_changes,
                      hyperparameter |-> "class_weights"]
    /\ lastOp' = "update_hyperparameter"
    /\ args' = <<action>>
    /\ UNCHANGED <<cls, use_enhanced_state, current_lr, epochs_since_update>>
    /\ UNCHANGED coVars
    /\ UNCHANGED fgVars

CW_process_action(action) ==
    CW_action_to_hyperparameter(current_class_weights, action)

----------------------------------------------------------------------------
(* State representation of the hyperparameter agents.                      *)
(* A component is written <<name, index>>: the expression the code put at  *)
(* that place, not its float value.  <<"zero", 0>> is the literal 0.0.     *)

ZeroComp == <<"zero", 0>>

\* lengths of the enhanced state vector the shared state may return: none,
\* one, and enough to fill or overflow state_dim
EnhLens == {0, 1, LR_state_dim - 3, CW_state_dim - 5}

\* metric-history lengths the shared state may return for the tracked metrics
HistLens == [{"loss", "val_loss", "dice_score"} -> 0..MaxHist]

\* faulty variant: a vector that is too long keeps its last state_dim entries
pad_or_truncate_tail(state, dim) ==
    IF Len(state) < dim
    THEN state \o [i \in 1..(dim - Len(state)) |-> ZeroComp]
    ELSE IF Len(state) > dim
         THEN SubSeq(state, Len(state) - dim + 1, Len(state))
         ELSE state

\* np.pad(state, (0, state_dim - len(state))) or state[:state_dim]
pad_or_truncate(state, dim) ==
    IF Len(state) < dim
    THEN state \o [i \in 1..(dim - Len(state)) |-> ZeroComp]
    ELSE IF Len(state) > dim
         THEN SubSeq(state, 1, dim)
         ELSE state

\* enhanced features, then the overfitting signals when there are any
enhanced_components(e, o) ==
    [i \in 1..e |-> <<"enhanced", i>>] \o [j \in 1..o |-> <<"overfitting", j>>]

\* epochs_since_update / 10.0, then current_epoch / total_epochs or 0.0
schedule_components(has_total_epochs) ==
    <<<<"epochs_since_update", 0>>,
      IF has_total_epochs THEN <<"progress", 0>> ELSE ZeroComp>>

RECURSIVE LR_metric_components(_, _)
\* per tracked metric: latest value, trend, volatility; zeros without history
LR_metric_components(metrics, h) ==
    IF metrics = <<>> THEN <<>>
    ELSE LET m == Head(metrics)
             this == IF h[m] > 0
                     THEN <<<<m, h[m]>>,
                            IF h[m] > 1 THEN <<m \o "_trend", h[m]>>
                            ELSE ZeroComp,
                            IF h[m] > 1 THEN <<m \o "_std", h[m]>>
                            ELSE ZeroComp>>
                     ELSE <<ZeroComp, ZeroComp, ZeroComp>>
         IN  this \o LR_metric_components(Tail(metrics), h)

\* the state_components list at the point it is converted to an array
LR_state_components ==
    LET enhanced == IF use_enhanced_state THEN EnhLens ELSE {0}
    IN  UNION {
          IF e > 0
          THEN {enhanced_components(e, o) \o <<<<"normalized_lr", 0>>>>
                    \o schedule_components(t) :
                o \in 0..MaxOvf, t \in BOOLEAN}
          ELSE {LR_metric_components(LR_metrics_to_track, h)
                    \o <<<<"normalized_lr", 0>>>> \o schedule_components(t) :
                h \in HistLens, t \in BOOLEAN}
          : e \in enhanced}

LR_get_state_representation ==
    /\ cls = "LearningRateAgent"
    /\ \E state_components \in LR_state_components :
           ret' = [kind |-> "state", components |-> state_components,
                   state |-> pad_or_truncate(state_components, LR_state_dim)]
    /\ lastOp' = "get_state_representation"
    /\ args' = <<>>
    /\ UNCHANGED hpVars
    /\ UNCHANGED coVars
    /\ UNCHANGED fgVars

RECURSIVE CW_metric_components(_, _)
\* per tracked metric but class_dice: latest value and trend
CW_metric_components(metrics, h) ==
    IF metrics = <<>> THEN <<>>
    ELSE LET m == Head(metrics)
             this == IF m = "class_dice" THEN <<>>
                     ELSE IF h[m] > 0
                          THEN <<<<m, h[m]>>,
                                 IF h[m] > 1 THEN <<m \o "_trend", h[m]>>
                                 ELSE ZeroComp>>
                          ELSE <<ZeroComp, ZeroComp>>
         IN  this \o CW_metric_components(Tail(metrics), h)

\* one normalized weight per class, then one dice score per class: the
\* class's own, else the overall dice score, else 0.0
CW_class_components(class_dice, has_dice) ==
    [i \in Classes |-> <<"normalized_weight", i>>]
    \o [i \in Classes |->
            IF i \in class_dice THEN <<"dice_class", i>>
            ELSE IF has_dice THEN <<"dice_score", 0>>
            ELSE ZeroComp]

\* the state_components list at the point it is converted to an array; the
\* overall dice score is there exactly when its history is not empty
CW_state_components ==
    LET enhanced == IF use_enhanced_state THEN EnhLens ELSE {0}
    IN  UNION {
          IF e > 0
          THEN {enhanced_components(e, o) \o CW_class_components(cd, d)
                    \o schedule_components(t) :
                o \in 0..MaxOvf, cd \in SUBSET Classes, d \in BOOLEAN,
                t \in BOOLEAN}
          ELSE {CW_metric_components(CW_metrics_to_track, h)
                    \o CW_class_components(cd, h["dice_score"] > 0)
                    \o schedule_components(t) :
                h \in HistLens, cd \in SUBSET Classes, t \in BOOLEAN}
          : e \in enhanced}

CW_get_state_representation ==
    /\ cls = "ClassWeightsAgent"
    /\ \E state_components \in CW_state_components :
           ret' = [kind |-> "state", components |-> state_components,
                   state |-> pad_or_truncate(state_components, CW_state_dim)]
    /\ lastOp' = "get_state_representation"
    /\ args' = <<>>
    /\ UNCHANGED hpVars
    /\ UNCHANGED coVars
    /\ UNCHANGED fgVars

----------------------------------------------------------------------------
(* Scheduling of the hyperparameter agents *)

patience == IF cls = "LearningRateAgent" THEN LR_patience ELSE CW_patience
cooldown == IF cls = "LearningRateAgent" THEN LR_cooldown ELSE CW_cooldown
update_frequency ==
    IF cls = "LearningRateAgent" THEN LR_update_frequency
    ELSE CW_update_frequency

\* true only once patience and cooldown have both cleared and the epoch is a
\* multiple of update_frequency
should_update(epoch) ==
    /\ epochs_since_update >= patience
    /\ epochs_since_update >= cooldown
    /\ epoch % update_frequency = 0

\* a non-acting step of the training loop: the counter advances
EndEpoch ==
    /\ epochs_since_update < MaxEsu
    /\ epochs_since_update' = epochs_since_update + 1
    /\ lastOp' = "end_epoch"
    /\ args' = <<>>
    /\ ret' = None
    /\ UNCHANGED <<cls, use_enhanced_state, current_lr, current_class_weights,
                   hyperparameters, updates>>
    /\ UNCHANGED coVars
    /\ UNCHANGED fgVars

\* faulty variant: the candidate is applied as _apply_action would
LR_select_action_applies(epoch) ==
    /\ cls = "LearningRateAgent"
    /\ IF ~should_update(epoch)
       THEN /\ ret' = None
            /\ UNCHANGED <<current_lr, hyperparameters>>
       ELSE \E a \in ActionSet :
                /\ ret' = Value(LR_process_action(<<a>>))
                /\ current_lr' = LR_process_action(<<a>>)
                /\ hyperparameters' =
                       set_hyperparameter(hyperparameters, "learning_rate",
                                          LR_process_action(<<a>>))
    /\ lastOp' = "select_action"
    /\ args' = <<epoch>>
    /\ UNCHANGED <<cls, use_enhanced_state, current_class_weights,
                   epochs_since_update, updates>>
    /\ UNCHANGED coVars
    /\ UNCHANGED fgVars

LR_select_action(epoch) ==
    /\ cls = "LearningRateAgent"
    /\ IF ~should_update(epoch)
       THEN ret' = None
       ELSE \E a \in ActionSet : ret' = Value(LR_process_action(<<a>>))
    /\ lastOp' = "select_action"
    /\ args' = <<epoch>>
    /\ UNCHANGED hpVars
    /\ UNCHANGED coVars
    /\ UNCHANGED fgVars

CW_select_action(epoch) ==
    /\ cls = "ClassWeightsAgent"
    /\ IF ~should_update(epoch)
       THEN ret' = None
       ELSE \E a \in [Classes -> ActionSet] :
                ret' = Value(CW_process_action(a))
    /\ lastOp' = "select_action"
    /\ args' = <<epoch>>
    /\ UNCHANGED hpVars
    /\ UNCHANGED coVars
    /\ UNCHANGED fgVars

----------------------------------------------------------------------------
(* SegmentationAgentCoordinator: conflict resolution.                      *)
(* A decision tensor is a sequence of NumPixels rationals.  agent_weights  *)
(* and agent_decisions are dictionaries filled in the order of the agents  *)
(* list, so they are iterated in the order of Agents.                      *)

\* elements of a decision tensor
NumPixels == 2

Agents == <<"agent_a", "agent_b", "agent_c">>
AgentNames == {Agents[i] : i \in DOMAIN Agents}
Pixels == 1..NumPixels

\* positive trust weights
WeightSet == {Half, One, <<2, 1>>}

\* binary decision tensors
Tensors == [Pixels -> {Zero, One}]

\* the agent_decisions dictionaries: a decision of some of the agents
DecisionDicts == UNION {[names -> Tensors] : names \in SUBSET AgentNames}

Modes == {"weighted_average", "priority", "voting", "first_available"}

Raise(exception) == [kind |-> "raise", exception |-> exception]

\* the names of a dictionary in insertion order
KeysInOrder(dict) == SelectSeq(agents, LAMBDA n : n \in DOMAIN dict)

\* next(iter(agent_decisions.values()))
FirstDecision(agent_decisions) ==
    IF DOMAIN agent_decisions = {}
    THEN Raise("StopIteration")
    ELSE Value(agent_decisions[Head(KeysInOrder(agent_decisions))])

RECURSIVE WeightedSum(_, _, _)
\* combined after the loop over the names: the sum of weight * decision
WeightedSum(names, weights, agent_decisions) ==
    IF names = <<>> THEN [p \in Pixels |-> Zero]
    ELSE LET n == Head(names)
             rest == WeightedSum(Tail(names), weights, agent_decisions)
         IN  [p \in Pixels |->
                 RatAdd(RatMul(weights[n], agent_decisions[n][p]), rest[p])]

RECURSIVE TotalWeight(_, _)
TotalWeight(names, weights) ==
    IF names = <<>> THEN Zero
    ELSE RatAdd(weights[Head(names)], TotalWeight(Tail(names), weights))

\* faulty variant: the sum is divided by the number of decisions
weighted_average_by_count(weights, agent_decisions) ==
    LET names == KeysInOrder(agent_decisions)
        combined == WeightedSum(names, weights, agent_decisions)
    IN  IF names = <<>> THEN None
        ELSE Value([p \in Pixels |-> RatDiv(combined[p], <<Len(names), 1>>)])

\* conflict_resolution == "weighted_average"
weighted_average(weights, agent_decisions) ==
    LET names == KeysInOrder(agent_decisions)
        combined == WeightedSum(names, weights, agent_decisions)
        total_weight == TotalWeight(names, weights)
    IN  IF names = <<>> THEN None
        ELSE IF RatLt(Zero, total_weight)
             THEN Value([p \in Pixels |-> RatDiv(combined[p], total_weight)])
             ELSE Value(combined)

RECURSIVE InsertByWeight(_, _, _, _)
\* n put into a list sorted in the given direction, behind the names of equal
\* weight (sorted is stable, with reverse=True as well)
InsertByWeight(n, sorted, weights, descending) ==
    IF sorted = <<>> THEN <<n>>
    ELSE LET before == IF descending
                       THEN RatLt(weights[Head(sorted)], weights[n])
                       ELSE RatLt(weights[n], weights[Head(sorted)])
         IN  IF before THEN <<n>> \o sorted
             ELSE <<Head(sorted)>>
                      \o InsertByWeight(n, Tail(sorted), weights, descending)

RECURSIVE SortedByWeight(_, _, _)
SortedByWeight(names, weights, descending) ==
    IF names = <<>> THEN <<>>
    ELSE InsertByWeight(names[Len(names)],
                        SortedByWeight(SubSeq(names, 1, Len(names) - 1),
                                       weights, descending),
                        weights, descending)

\* faulty variant: reverse=True is left out, the order is ascending
priority_order_ascending(weights) ==
    SortedByWeight(KeysInOrder(weights), weights, FALSE)

\* sorted(agent_weights.items(), key=weight, reverse=True)
priority_order(weights) ==
    SortedByWeight(KeysInOrder(weights), weights, TRUE)

\* conflict_resolution == "priority"
priority(weights, agent_decisions) ==
    LET present == SelectSeq(priority_order(weights),
                             LAMBDA n : n \in DOMAIN agent_decisions)
    IN  IF present # <<>> THEN Value(agent_decisions[Head(present)])
        ELSE FirstDecision(agent_decisions)

RECURSIVE PlainSum(_, _, _)
PlainSum(names, agent_decisions, p) ==
    IF names = <<>> THEN Zero
    ELSE RatAdd(agent_decisions[Head(names)][p],
                PlainSum(Tail(names), agent_decisions, p))

\* faulty variant: the threshold is mean >= 0.5
voting_at_least_half(agent_decisions, image) ==
    LET names == KeysInOrder(agent_decisions)
    IN  IF names = <<>>
        THEN IF image = "None" THEN Raise("TypeError")
             ELSE Value([p \in Pixels |-> Zero])
        ELSE Value([p \in Pixels |->
                 LET mean_decision ==
                         RatDiv(PlainSum(names, agent_decisions, p),
                                <<Len(names), 1>>)
                 IN  IF RatLeq(Half, mean_decision) THEN One ELSE Zero])

\* conflict_resolution == "voting"
voting(agent_decisions, image) ==
    LET names == KeysInOrder(agent_decisions)
    IN  IF names = <<>>
        THEN IF image = "None" THEN Raise("TypeError")
             ELSE Value([p \in Pixels |-> Zero])
        ELSE Value([p \in Pixels |->
                 LET mean_decision ==
                         RatDiv(PlainSum(names, agent_decisions, p),
                                <<Len(names), 1>>)
                 IN  IF RatLt(Half, mean_decision) THEN One ELSE Zero])

resolve_conflicts(agent_decisions) ==
    IF conflict_resolution = "weighted_average"
    THEN weighted_average(agent_weights, agent_decisions)
    ELSE IF conflict_resolution = "priority"
    THEN priority(agent_weights, agent_decisions)
    ELSE IF conflict_resolution = "voting"
    THEN voting(agent_decisions, current_image)
    ELSE FirstDecision(agent_decisions)

\* make_decision has collected agent_decisions and resolves them
ResolveConflicts ==
    /\ lastOp = "make_decision"
    /\ ret' = resolve_conflicts(args[1])
    /\ lastOp' = "_resolve_conflicts"
    /\ UNCHANGED args
    /\ UNCHANGED hpVars
    /\ UNCHANGED coVars
    /\ UNCHANGED fgVars

----------------------------------------------------------------------------
(* SegmentationAgentCoordinator: rewards and agent weights.                *)
(* The dictionaries agent_weights and agent_performance are keyed by the   *)
(* names of self.agents.                                                   *)

\* update_agents calls followed per behaviour
MaxCalls == 1

\* default of the window parameter of _update_agent_weights
window == 10

\* smallest weight _update_agent_weights assigns before it normalizes
weight_floor == <<1, 10>>

\* reward values: a negative one and one above 1.0
Rewards == {<<-1, 1>>, <<2, 1>>}

\* the shared reward, told apart from the agents' own by its value
TotalReward == Half

\* the reward_dict arguments: a reward under some agent names and "total"
RewardDicts ==
    UNION {{d \in [keys -> Rewards \cup {TotalReward}] :
               \A k \in keys : (k = "total") <=> (d[k] = TotalReward)} :
           keys \in SUBSET (AgentNames \cup {"total"})}

\* the agents lists a coordinator is constructed over
AgentLists == {SubSeq(Agents, 1, k) : k \in 0..Len(Agents)}

NamesOf(list) == {list[i] : i \in DOMAIN list}

\* faulty variant: the shared "total" reward is preferred to the agent's own
agent_reward_total_first(reward_dict, name) ==
    IF "total" \in DOMAIN reward_dict THEN reward_dict["total"]
    ELSE IF name \in DOMAIN reward_dict THEN reward_dict[name]
    ELSE Zero

\* reward_dict.get(agent.name, reward_dict.get("total", 0.0))
agent_reward(reward_dict, name) ==
    IF name \in DOMAIN reward_dict THEN reward_dict[name]
    ELSE IF "total" \in DOMAIN reward_dict THEN reward_dict["total"]
    ELSE Zero

\* np.mean(rewards[-window:])
recent_avg(rewards) ==
    LET n == Len(rewards)
        recent == IF n > window THEN SubSeq(rewards, n - window + 1, n)
                  ELSE rewards
    IN  RatDiv(RatSum(recent), <<Len(recent), 1>>)

\* faulty variant: the recent average is assigned without the floor
recent_weights_unfloored(weights, performance) ==
    [n \in DOMAIN weights |->
        IF Len(performance[n]) >= window
        THEN recent_avg(performance[n])
        ELSE weights[n]]

\* the first loop of _update_agent_weights: agents with a full window of
\* rewards get max(0.1, recent_avg), the others keep their weight
recent_weights(weights, performance) ==
    [n \in DOMAIN weights |->
        IF Len(performance[n]) >= window
        THEN RatMax(weight_floor, recent_avg(performance[n]))
        ELSE weights[n]]

\* faulty variant: the weights are divided by their total and not rescaled
normalize_weights_unit_sum(weights) ==
    LET total_weight == TotalWeight(KeysInOrder(weights), weights)
    IN  IF RatLt(Zero, total_weight)
        THEN [n \in DOMAIN weights |-> RatDiv(weights[n], total_weight)]
        ELSE weights

\* the second loop: weight /= total_weight, weight *= len(agent_weights)
normalize_weights(weights) ==
    LET total_weight == TotalWeight(KeysInOrder(weights), weights)
    IN  IF RatLt(Zero, total_weight)
        THEN [n \in DOMAIN weights |->
                 RatMul(RatDiv(weights[n], total_weight),
                        <<Cardinality(DOMAIN weights), 1>>)]
        ELSE weights

update_agent_weights(weights, performance) ==
    normalize_weights(recent_weights(weights, performance))

update_agents(reward_dict, done) ==
    /\ calls < MaxCalls
    /\ LET reward == [n \in NamesOf(agents) |-> agent_reward(reward_dict, n)]
           performance == [n \in NamesOf(agents) |->
                              Append(agent_performance[n], reward[n])]
       IN  /\ agent_update_calls' =
                  [i \in DOMAIN agents |-> <<agents[i], reward[agents[i]], done>>]
           /\ agent_performance' = performance
           /\ agent_weights' = update_agent_weights(agent_weights, performance)
           /\ ret' = Value([n \in NamesOf(agents) |-> "metrics"])
    /\ calls' = calls + 1
    /\ lastOp' = "update_agents"
    /\ args' = <<reward_dict, done>>
    /\ UNCHANGED <<conflict_resolution, current_image, agents,
                   current_segmentation, features, agent_calls,
                   current_prediction, files>>
    /\ UNCHANGED hpVars
    /\ UNCHANGED fgVars

----------------------------------------------------------------------------
(* SegmentationAgentCoordinator: refine_segmentation.                      *)
(* What an agent's apply_action returns is None or a tensor, written       *)
(* Value(tensor).                                                          *)

Refinements == {None} \cup {Value(t) : t \in Tensors}

\* the agents whose refinement is not skipped, in the order of features
refining_agents(refined) ==
    SelectSeq(KeysInOrder(refined), LAMBDA n : refined[n] # None)

\* self.agent_weights.get(agent_name, 1.0)
weight_of(weights, names) ==
    [n \in names |-> IF n \in DOMAIN weights THEN weights[n] ELSE One]

\* faulty variant: the threshold is not strict
threshold_at_least_half(combined) ==
    [p \in Pixels |-> IF RatLeq(Half, combined[p]) THEN One ELSE Zero]

\* (combined > 0.5).float()
threshold(combined) ==
    [p \in Pixels |-> IF RatLt(Half, combined[p]) THEN One ELSE Zero]

\* faulty variant: without a refinement the sum starts from zeros
combine_refinements_from_zeros(weights, refined) ==
    LET names == refining_agents(refined)
        weight == weight_of(weights, NamesOf(names))
        decisions == [n \in NamesOf(names) |-> refined[n].value]
        combined == WeightedSum(names, weight, decisions)
        total_weight == TotalWeight(names, weight)
    IN  IF DOMAIN refined = {} THEN None
        ELSE IF RatLt(Zero, total_weight)
        THEN Value(threshold([p \in Pixels |->
                                 RatDiv(combined[p], total_weight)]))
        ELSE Value(threshold(combined))

\* the thresholded weighted average of the refinements; None where the code
\* returns early because there is no agent or no refinement
combine_refinements(weights, refined) ==
    LET names == refining_agents(refined)
        weight == weight_of(weights, NamesOf(names))
        decisions == [n \in NamesOf(names) |-> refined[n].value]
        combined == WeightedSum(names, weight, decisions)
        total_weight == TotalWeight(names, weight)
    IN  IF DOMAIN refined = {} THEN None
        ELSE IF names = <<>> \/ total_weight = Zero THEN None
        ELSE IF RatLt(Zero, total_weight)
        THEN Value(threshold([p \in Pixels |->
                                 RatDiv(combined[p], total_weight)]))
        ELSE Value(threshold(combined))

\* the state manager holds no segmentation yet: the first refinement.  Both
\* forms of the apply_action call leave the agent's refinement in features.
\* update_segmentation stores initial_preds first and refined_preds at the
\* end, unless the call returned early.
refine_segmentation(initial_preds, refined) ==
    /\ current_segmentation = None
    /\ features' = refined
    /\ LET refined_preds == combine_refinements(agent_weights, refined)
       IN  IF refined_preds = None
           THEN /\ current_segmentation' = Value(initial_preds)
                /\ ret' = Value(initial_preds)
           ELSE /\ current_segmentation' = refined_preds
                /\ ret' = refined_preds
    /\ lastOp' = "refine_segmentation"
    /\ args' = <<initial_preds>>
    /\ UNCHANGED <<conflict_resolution, agent_weights, current_image, agents,
                   agent_performance, agent_update_calls, calls, agent_calls,
                   current_prediction, files>>
    /\ UNCHANGED hpVars
    /\ UNCHANGED fgVars

----------------------------------------------------------------------------
(* FGBalanceAgent.  An observation is kept as an opaque record; an entry   *)
(* of action_history keeps the action_type that learn reads.               *)

\* longest history buffer followed
MaxHistory == 2
\* largest step the state manager reports
MaxStep == 2

FG_update_frequency == 2
initial_threshold == Half
min_threshold == <<1, 10>>
max_threshold == <<9, 10>>
threshold_step == <<1, 20>>

\* cut point of apply_action: below -0.33 decrease, above 0.33 increase
action_cut == <<33, 100>>

\* the policy's three actions: 0 increase, 1 decrease, 2 maintain
ActionTypes == {0, 1, 2}

\* continuous actions of the action space [-1, 1]
ActionValues == {<<-1, 1>>, <<-33, 100>>, Zero, <<33, 100>>, One}

\* no file at the checkpoint path
Missing == [kind |-> "missing"]

\* the empty dictionary {}
EmptyDict == [kind |-> "empty"]

Observation == [kind |-> "observation"]

\* faulty variant: the step is applied without the bounds
decided_threshold_unclamped(t, action) ==
    IF action = 0 THEN RatAdd(t, threshold_step)
    ELSE IF action = 1 THEN RatAdd(t, RatMul(<<-1, 1>>, threshold_step))
    ELSE t

\* decide: map action to segmentation threshold adjustment
decided_threshold(t, action) ==
    IF action = 0 THEN RatMin(RatAdd(t, threshold_step), max_threshold)
    ELSE IF action = 1
    THEN RatMax(RatAdd(t, RatMul(<<-1, 1>>, threshold_step)), min_threshold)
    ELSE t

\* faulty variant: the cut points themselves adjust the threshold
applied_threshold_inclusive(t, action_value) ==
    IF RatLeq(action_value, RatMul(<<-1, 1>>, action_cut))
    THEN RatMax(min_threshold, RatAdd(t, RatMul(<<-1, 1>>, threshold_step)))
    ELSE IF RatLeq(action_cut, action_value)
    THEN RatMin(max_threshold, RatAdd(t, threshold_step))
    ELSE t

\* apply_action: adjust threshold based on action
applied_threshold(t, action_value) ==
    IF RatLt(action_value, RatMul(<<-1, 1>>, action_cut))
    THEN RatMax(min_threshold, RatAdd(t, RatMul(<<-1, 1>>, threshold_step)))
    ELSE IF RatLt(action_cut, action_value)
    THEN RatMin(max_threshold, RatAdd(t, threshold_step))
    ELSE t

\* foreground ratios of a mask and of a thresholded prediction
FgRatios == {Zero, Half, One}

\* decay factor of the moving average of the foreground ratio
avg_decay == <<9, 10>>

\* faulty variant: the moving average is updated before the tensors are
\* looked at
moving_average_always(available, avg, pred_fg_ratio) ==
    RatAdd(RatMul(avg_decay, avg),
           RatMul(RatAdd(One, RatMul(<<-1, 1>>, avg_decay)), pred_fg_ratio))

\* avg_decay * avg_fg_ratio + (1 - avg_decay) * pred_fg_ratio, reached only
\* when image, mask and prediction are there
moving_average(available, avg, pred_fg_ratio) ==
    IF available
    THEN RatAdd(RatMul(avg_decay, avg),
                RatMul(RatAdd(One, RatMul(<<-1, 1>>, avg_decay)),
                       pred_fg_ratio))
    ELSE avg

\* observe(): available says whether the state manager holds an image, a
\* mask and a prediction; gt_fg_ratio and pred_fg_ratio are the foreground
\* ratios of the mask and of the thresholded prediction
observe(available, gt_fg_ratio, pred_fg_ratio) ==
    /\ avg_fg_ratio' = moving_average(available, avg_fg_ratio, pred_fg_ratio)
    /\ IF available
       THEN /\ Len(observation_history) < MaxHistory
            /\ target_fg_ratio' = gt_fg_ratio
            /\ observation_history' = Append(observation_history, Observation)
            /\ ret' = Observation
       ELSE /\ ret' = EmptyDict
            /\ UNCHANGED <<target_fg_ratio, observation_history>>
    /\ lastOp' = "observe"
    /\ UNCHANGED checkpoint
    /\ args' = <<>>
    /\ UNCHANGED <<segmentation_threshold, last_update_step, action_history,
                   reward_history, current_step, policy_updates>>
    /\ UNCHANGED hpVars
    /\ UNCHANGED coVars

\* decide(observation): action is what the policy sampled (or its arg-max)
decide(observation, action) ==
    /\ IF observation = EmptyDict
       THEN /\ ret' = EmptyDict
            /\ UNCHANGED <<segmentation_threshold, action_history>>
       ELSE LET new_threshold ==
                    decided_threshold(segmentation_threshold, action)
            IN  /\ Len(action_history) < MaxHistory
                /\ action_history' =
                       Append(action_history, [action_type |-> action])
                /\ segmentation_threshold' = new_threshold
                /\ ret' = [kind |-> "action",
                           segmentation_threshold |-> new_threshold,
                           action_type |-> action]
    /\ lastOp' = "decide"
    /\ UNCHANGED checkpoint
    /\ args' = <<observation>>
    /\ UNCHANGED <<target_fg_ratio, avg_fg_ratio, last_update_step,
                   observation_history, reward_history, current_step,
                   policy_updates>>
    /\ UNCHANGED hpVars
    /\ UNCHANGED coVars

\* faulty variant: learn never waits for update_frequency steps
too_early_never(step, last) == FALSE

\* current_step - self.last_update_step < self.update_frequency
too_early(step, last) == step - last < FG_update_frequency

\* learn(reward): step is what state_manager.get_current_step() returns,
\* a counter that does not run backwards
learn(reward, step) ==
    /\ Len(reward_history) < MaxHistory
    /\ step >= current_step
    /\ reward_history' = Append(reward_history, reward)
    /\ current_step' = step
    /\ IF too_early(step, last_update_step)
       THEN /\ ret' = EmptyDict
            /\ UNCHANGED <<last_update_step, policy_updates>>
       ELSE /\ last_update_step' = step
            /\ IF Len(action_history) < 2 \/ Len(reward_history') < 2
               THEN /\ ret' = EmptyDict
                    /\ UNCHANGED policy_updates
               ELSE IF observation_history = <<>>
               THEN /\ ret' = Raise("IndexError")
                    /\ UNCHANGED policy_updates
               ELSE /\ policy_updates' = policy_updates + 1
                    /\ ret' = [kind |-> "metrics", reward |-> reward,
                               segmentation_threshold |->
                                   segmentation_threshold]
    /\ lastOp' = "learn"
    /\ UNCHANGED checkpoint
    /\ args' = <<reward>>
    /\ UNCHANGED <<segmentation_threshold, target_fg_ratio, avg_fg_ratio,
                   observation_history, action_history>>
    /\ UNCHANGED hpVars
    /\ UNCHANGED coVars

\* apply_action(action): has_prediction says whether the state manager
\* holds a current prediction; the binary prediction is returned and stored
apply_action(action_value, has_prediction) ==
    /\ IF has_prediction
       THEN /\ segmentation_threshold' =
                   applied_threshold(segmentation_threshold, action_value)
            /\ ret' = [kind |-> "prediction",
                       segmentation_threshold |-> segmentation_threshold']
       ELSE /\ ret' = None
            /\ UNCHANGED segmentation_threshold
    /\ lastOp' = "apply_action"
    /\ UNCHANGED checkpoint
    /\ args' = <<action_value, has_prediction>>
    /\ UNCHANGED <<target_fg_ratio, avg_fg_ratio, last_update_step,
                   observation_history, action_history, reward_history,
                   current_step, policy_updates>>
    /\ UNCHANGED hpVars
    /\ UNCHANGED coVars

\* what a caller may pass to decide: {} or an observation observe returned
ObservationsSeen ==
    {EmptyDict} \cup {observation_history[i] : i \in DOMAIN observation_history}

----------------------------------------------------------------------------
(* Construction *)

LR_init ==
    /\ cls = "LearningRateAgent"
    /\ current_lr \in InitialLrs
    /\ current_class_weights = NoAttr
    /\ hyperparameters = [k \in {"learning_rate"} |-> current_lr]
    /\ epochs_since_update = 0

CW_init ==
    /\ cls = "ClassWeightsAgent"
    /\ current_class_weights \in InitialClassWeights
    /\ current_lr = NoAttr
    /\ hyperparameters = [k \in {"class_weights"} |-> current_class_weights]
    /\ epochs_since_update = 0

\* a coordinator constructed over no agents
CoordinatorIdle ==
    /\ conflict_resolution = "weighted_average"
    /\ agents = <<>>
    /\ agent_weights = <<>>
    /\ agent_performance = <<>>
    /\ agent_update_calls = <<>>
    /\ current_image = "None"
    /\ current_segmentation = None
    /\ features = <<>>
    /\ calls = 0
    /\ agent_calls = <<>>
    /\ current_prediction = None
    /\ files = <<>>

\* the scheduling state and history buffers of a segmentation agent
BaseSegmentationAgentIdle ==
    /\ last_update_step = 0
    /\ observation_history = <<>>
    /\ action_history = <<>>
    /\ reward_history = <<>>

\* a foreground-background balance agent as constructed: the threshold set
\* by _init_balance_components, the histories and last_update_step set by
\* the base class, a state manager at step 0 and an untrained policy
FGBalanceAgentIdle ==
    /\ segmentation_threshold = initial_threshold
    /\ target_fg_ratio = Half
    /\ avg_fg_ratio = Half
    /\ BaseSegmentationAgentIdle
    /\ current_step = 0
    /\ policy_updates = 0
    /\ checkpoint = Missing

Init ==
    /\ LR_init \/ CW_init
    /\ use_enhanced_state \in BOOLEAN
    /\ updates = 0
    /\ lastOp = "__init__"
    /\ args = <<>>
    /\ ret = None
    /\ CoordinatorIdle
    /\ FGBalanceAgentIdle

Next ==
    \/ \E a \in ActionSet : LR_update_hyperparameter(a)
    \/ \E a \in ActionArrays : CW_update_hyperparameter(a)
    \/ \E e \in 0..MaxEpoch : LR_select_action(e)
    \/ \E e \in 0..MaxEpoch : CW_select_action(e)
    \/ EndEpoch

Spec == Init /\ [][Next]_vars

\* the agents building their state vector from what the shared state returns
NextState ==
    \/ LR_get_state_representation
    \/ CW_get_state_representation

SpecState == Init /\ [][NextState]_vars

\* a learning-rate agent constructed with its defaults
HyperparameterAgentIdle ==
    /\ cls = "LearningRateAgent"
    /\ use_enhanced_state = TRUE
    /\ current_lr = <<1, 1000>>
    /\ current_class_weights = NoAttr
    /\ hyperparameters = [k \in {"learning_rate"} |-> current_lr]
    /\ epochs_since_update = 0
    /\ updates = 0

\* a coordinator in any resolution mode with positive agent weights, at the
\* point where make_decision holds the agents' decisions
InitResolve ==
    /\ HyperparameterAgentIdle
    /\ FGBalanceAgentIdle
    /\ conflict_resolution \in Modes
    /\ agents = Agents
    /\ agent_weights \in [AgentNames -> WeightSet]
    /\ agent_performance = [n \in AgentNames |-> <<>>]
    /\ agent_update_calls = <<>>
    /\ current_image \in {"None", "image"}
    /\ current_segmentation = None
    /\ features = <<>>
    /\ calls = 0
    /\ agent_calls = <<>>
    /\ current_prediction = None
    /\ files = <<>>
    /\ lastOp = "make_decision"
    /\ args \in {<<d>> : d \in DecisionDicts}
    /\ ret = None

NextResolve == ResolveConflicts

SpecResolve == InitResolve /\ [][NextResolve]_vars

\* a coordinator over some agents that has received the same rewards in
\* every update_agents call so far
InitCoord ==
    /\ HyperparameterAgentIdle
    /\ FGBalanceAgentIdle
    /\ conflict_resolution = "weighted_average"
    /\ agents \in AgentLists
    /\ current_image = "None"
    /\ current_segmentation = None
    /\ features = <<>>
    /\ calls = 0
    /\ agent_calls = <<>>
    /\ current_prediction = None
    /\ files = <<>>
    /\ \E len \in {0, window - 1, window} :
       \E reward \in [NamesOf(agents) -> Rewards] :
          /\ agent_performance =
                 [n \in NamesOf(agents) |-> [i \in 1..len |-> reward[n]]]
          /\ IF len = 0
             THEN /\ agent_weights = [n \in NamesOf(agents) |-> One]
                  /\ agent_update_calls = <<>>
                  /\ lastOp = "__init__"
                  /\ args = <<>>
                  /\ ret = None
             ELSE /\ agent_weights =
                         update_agent_weights(
                             [n \in NamesOf(agents) |-> One],
                             agent_performance)
                  /\ agent_update_calls =
                         [i \in DOMAIN agents |->
                             <<agents[i], reward[agents[i]], FALSE>>]
                  /\ lastOp = "update_agents"
                  /\ args = <<reward, FALSE>>
                  /\ ret = Value([n \in NamesOf(agents) |-> "metrics"])

NextCoord == \E reward_dict \in RewardDicts, done \in BOOLEAN :
                 update_agents(reward_dict, done)

SpecCoord == InitCoord /\ [][NextCoord]_vars

NextRefine ==
    \E initial_preds \in Tensors, refined \in [NamesOf(agents) -> Refinements] :
        refine_segmentation(initial_preds, refined)

SpecRefine == InitCoord /\ [][NextRefine]_vars

\* a constructed FGBalanceAgent beside idle hyperparameter agent and
\* coordinator
InitFG ==
    /\ HyperparameterAgentIdle
    /\ CoordinatorIdle
    /\ FGBalanceAgentIdle
    /\ lastOp = "__init__"
    /\ args = <<>>
    /\ ret = None

\* the observe, decide, learn cycle, on masks and predictions that are half
\* foreground
NextFG ==
    \/ \E available \in BOOLEAN : observe(available, Half, Half)
    \/ \E observation \in ObservationsSeen, action \in ActionTypes :
           decide(observation, action)
    \/ \E reward \in Rewards, step \in 0..MaxStep : learn(reward, step)

SpecFG == InitFG /\ [][NextFG]_vars

\* the two pathways that move the segmentation threshold
NextThreshold ==
    \/ \E available \in BOOLEAN : observe(available, Half, Half)
    \/ \E observation \in ObservationsSeen, action \in ActionTypes :
           decide(observation, action)
    \/ \E action_value \in ActionValues, has_prediction \in BOOLEAN :
           apply_action(action_value, has_prediction)

SpecThreshold == InitFG /\ [][NextThreshold]_vars

\* observing and deciding on masks and predictions of any foreground ratio
NextObserve ==
    \/ \E available \in BOOLEAN, gt_fg_ratio, pred_fg_ratio \in FgRatios :
           observe(available, gt_fg_ratio, pred_fg_ratio)
    \/ \E observation \in ObservationsSeen, action \in ActionTypes :
           decide(observation, action)

SpecObserve == InitFG /\ [][NextObserve]_vars

----------------------------------------------------------------------------
(* Properties of the hyperparameter agents *)

IsLR == cls = "LearningRateAgent"
IsCW == cls = "ClassWeightsAgent"
Updated == lastOp = "update_hyperparameter"

InRange(x, lo, hi) == RatLeq(lo, x) /\ RatLeq(x, hi)

\* C1: once ClassWeightsAgent.update_hyperparameter has run, the committed
\* class weights (the agent's and the shared state's) sum to num_classes,
\* i.e. their mean is 1.0.
C1_ClassWeightsMeanOne ==
    (IsCW /\ updates > 0) =>
        /\ RatSum(current_class_weights) = <<num_classes, 1>>
        /\ RatSum(hyperparameters["class_weights"]) = <<num_classes, 1>>

\* a second update has committed weights that moved off 1.0
C1_Witness ==
    /\ IsCW /\ Updated /\ updates = 2
    /\ current_class_weights[1] # One
    /\ ret.old_value # ret.new_value

\* C2: once ClassWeightsAgent.update_hyperparameter has run, every stored
\* class weight (the agent's and the shared state's) lies in
\* [min_weight, max_weight].
C2_ClassWeightsWithinBounds ==
    (IsCW /\ updates > 0) =>
        \A i \in Classes :
            /\ InRange(current_class_weights[i], min_weight, max_weight)
            /\ InRange(hyperparameters["class_weights"][i],
                       min_weight, max_weight)

\* C3: the learning rate committed by update_hyperparameter(a) is
\* old * 3^a brought back into [min_lr, max_lr], and current_lr (the agent's
\* and the shared state's) stays within [min_lr, max_lr] throughout.
C3_LearningRateWithinBounds ==
    IsLR =>
        /\ InRange(current_lr, min_lr, max_lr)
        /\ InRange(hyperparameters["learning_rate"], min_lr, max_lr)
        /\ Updated =>
              LET scaled == RatMul(ret.old_value, Pow(3, args[1]))
              IN  ret.new_value =
                      IF RatLt(scaled, min_lr) THEN min_lr
                      ELSE IF RatLt(max_lr, scaled) THEN max_lr
                      ELSE scaled

\* an update whose scaled value left the domain and was clipped to max_lr
C3_Witness ==
    /\ IsLR /\ Updated
    /\ args[1] = 1
    /\ ret.old_value # max_lr
    /\ current_lr = max_lr

CurrentValue == IF IsLR THEN current_lr ELSE current_class_weights
HyperparameterKey == IF IsLR THEN "learning_rate" ELSE "class_weights"

\* C5: select_action(epoch) returns None exactly when should_update(epoch) is
\* false, and whatever it returns it leaves the agent's current value, its
\* epochs_since_update and the shared hyperparameter entry as they were.
C5_SelectActionCommitsNothing ==
    [][lastOp' = "select_action" =>
          /\ (ret' = None) <=> ~should_update(args'[1])
          /\ UNCHANGED <<current_lr, current_class_weights,
                         epochs_since_update, hyperparameters>>]_vars

\* select_action returned a candidate that differs from the committed value
C5_Witness ==
    /\ lastOp = "select_action"
    /\ ret.kind = "value"
    /\ ret.value # CurrentValue
    /\ hyperparameters[HyperparameterKey] = CurrentValue

\* C6: every update_hyperparameter call leaves epochs_since_update at 0.
C6_UpdateResetsEpochsSinceUpdate ==
    Updated => epochs_since_update = 0

\* relative_change * old_value = new_value, componentwise for class weights
RatioOf(rel, old, new) ==
    IF IsLR THEN RatMul(rel, old) = new
    ELSE \A i \in Classes : RatMul(rel[i], old[i]) = new[i]

\* C7: the shared state's entry under the agent's key always equals the
\* agent's current value, and the audit record of update_hyperparameter has
\* old_value = the value before the call, new_value = the value after it and
\* relative_change = new_value / old_value.
C7_SharedStateAndAuditRecord ==
    /\ [](hyperparameters[HyperparameterKey] = CurrentValue)
    /\ [][lastOp' = "update_hyperparameter" =>
             /\ ret'.old_value = CurrentValue
             /\ ret'.new_value = CurrentValue'
             /\ RatioOf(ret'.relative_change, ret'.old_value,
                        ret'.new_value)]_vars

\* an update that changed the value
C7_Witness ==
    /\ Updated
    /\ ret.old_value # ret.new_value
    /\ ret.new_value = CurrentValue

state_dim == IF IsLR THEN LR_state_dim ELSE CW_state_dim

\* C4: get_state_representation returns exactly state_dim entries: entry i is
\* the i-th assembled component while there is one and 0.0 after that, so a
\* short vector is zero-padded at the tail and a long one keeps its head.
C4_StateVectorHasStateDim ==
    lastOp = "get_state_representation" =>
        /\ Len(ret.state) = state_dim
        /\ \A i \in 1..state_dim :
               ret.state[i] = IF i <= Len(ret.components)
                              THEN ret.components[i]
                              ELSE ZeroComp

\* more components than state_dim were assembled, and the vector was cut
C4_Witness ==
    /\ lastOp = "get_state_representation"
    /\ Len(ret.components) > state_dim
    /\ Len(ret.state) = state_dim

----------------------------------------------------------------------------
(* Properties of conflict resolution *)

Resolved == lastOp = "_resolve_conflicts"

RECURSIVE SetSum(_, _)
\* the sum of f over the set S
SetSum(S, f) ==
    IF S = {} THEN Zero
    ELSE LET x == CHOOSE y \in S : TRUE
         IN  RatAdd(f[x], SetSum(S \ {x}, f))

\* C8: in weighted_average mode the result times the sum of the deciding
\* agents' weights equals the sum of weight * decision, element by element,
\* and the result is None exactly when no agent decided.
C8_WeightedAverage ==
    (Resolved /\ conflict_resolution = "weighted_average") =>
        LET d == args[1]
            deciding == DOMAIN d
        IN  /\ (ret = None) <=> (deciding = {})
            /\ deciding # {} =>
                 /\ ret.kind = "value"
                 /\ \A p \in Pixels :
                      RatMul(ret.value[p], SetSum(deciding, agent_weights)) =
                      SetSum(deciding,
                             [a \in deciding |->
                                 RatMul(agent_weights[a], d[a][p])])

\* weights 2.0 and 1.0 with decisions 1.0 and 0.0 give 2/3
C8_Witness ==
    /\ Resolved /\ conflict_resolution = "weighted_average"
    /\ DOMAIN args[1] = {"agent_a", "agent_b"}
    /\ agent_weights["agent_a"] = <<2, 1>> /\ agent_weights["agent_b"] = One
    /\ args[1]["agent_a"][1] = One /\ args[1]["agent_b"][1] = Zero
    /\ ret.value[1] = <<2, 3>>

\* C9: in priority mode the result is the decision of a deciding agent whose
\* weight no other deciding agent exceeds.
C9_PriorityPicksHeaviest ==
    (Resolved /\ conflict_resolution = "priority" /\ DOMAIN args[1] # {}) =>
        /\ ret.kind = "value"
        /\ \E a \in DOMAIN args[1] :
              /\ ret.value = args[1][a]
              /\ \A b \in DOMAIN args[1] :
                    RatLeq(agent_weights[b], agent_weights[a])

\* the later, heavier agent's decision won over a different one
C9_Witness ==
    /\ Resolved /\ conflict_resolution = "priority"
    /\ DOMAIN args[1] = {"agent_a", "agent_b"}
    /\ RatLt(agent_weights["agent_a"], agent_weights["agent_b"])
    /\ args[1]["agent_a"] # args[1]["agent_b"]
    /\ ret.value = args[1]["agent_b"]

\* C10: in voting mode with binary decisions an element of the result is 1
\* when more than half of the deciding agents decided 1 there and 0
\* otherwise, whatever the agent weights are.
C10_VotingIsStrictMajority ==
    (Resolved /\ conflict_resolution = "voting" /\ DOMAIN args[1] # {}) =>
        /\ ret.kind = "value"
        /\ \A p \in Pixels :
              LET ones == {a \in DOMAIN args[1] : args[1][a][p] = One}
              IN  ret.value[p] =
                      IF 2 * Cardinality(ones) > Cardinality(DOMAIN args[1])
                      THEN One ELSE Zero

\* decisions [1, 1, 0] of three agents give 1, and a tie of two agents gives 0
C10_Witness ==
    /\ Resolved /\ conflict_resolution = "voting"
    /\ DOMAIN args[1] = AgentNames
    /\ args[1]["agent_a"][1] = One /\ args[1]["agent_b"][1] = One
    /\ args[1]["agent_c"][1] = Zero
    /\ ret.value[1] = One
    /\ args[1]["agent_a"][2] = One /\ args[1]["agent_b"][2] = Zero
    /\ args[1]["agent_c"][2] = Zero
    /\ ret.value[2] = Zero

----------------------------------------------------------------------------
(* Properties of the agent weights *)

UpdatedAgents == lastOp = "update_agents" /\ calls > 0

Last(seq) == seq[Len(seq)]

\* the total weight the weighted average divides by when names decided
DivisorOf(names) ==
    TotalWeight(SelectSeq(Agents, LAMBDA n : n \in names), agent_weights)

\* C11: after construction and after every update_agents call, whatever the
\* rewards were, the agent weights sum to the number of agents.
C11_WeightsSumToAgentCount ==
    TotalWeight(KeysInOrder(agent_weights), agent_weights) = <<Len(agents), 1>>

\* three agents with a full window of rewards, one of them with a negative
\* recent average, after an update_agents call that changed the weights
C11_Witness ==
    /\ UpdatedAgents
    /\ Len(agents) = 3
    /\ \A n \in NamesOf(agents) : Len(agent_performance[n]) >= window
    /\ \E n \in NamesOf(agents) : RatLt(recent_avg(agent_performance[n]), Zero)
    /\ \E n \in NamesOf(agents) : agent_weights[n] # One

\* C12: after _update_agent_weights every agent with at least window (10)
\* recorded rewards has a weight of at least 0.1, also when the mean of its
\* last window rewards is negative.
C12_WindowedWeightAtLeastFloor ==
    UpdatedAgents =>
        \A n \in NamesOf(agents) :
            Len(agent_performance[n]) >= window =>
                RatLeq(weight_floor, agent_weights[n])

\* C13: every agent weight is strictly positive in every state reached by
\* update_agents calls, so the total weight the weighted average divides by
\* is positive for every non-empty set of deciding agents.
C13_WeightsStrictlyPositive ==
    /\ \A n \in NamesOf(agents) : RatLt(Zero, agent_weights[n])
    /\ \A names \in SUBSET NamesOf(agents) :
           names # {} => RatLt(Zero, DivisorOf(names))

\* an agent whose last window rewards are all negative, after update_agents
C13_Witness ==
    /\ UpdatedAgents
    /\ Len(agents) >= 2
    /\ \E n \in NamesOf(agents) :
           /\ Len(agent_performance[n]) > window
           /\ \A i \in 2..Len(agent_performance[n]) :
                  RatLt(agent_performance[n][i], Zero)

\* C14: one update_agents(reward_dict, done) call updates each agent once
\* with reward_dict[agent.name] if present, else reward_dict["total"] if
\* present, else 0.0, appends exactly that reward once to the agent's
\* performance history, and recomputes the weights from the histories that
\* hold the rewards of all agents.
C14_UpdateAgentsDispatch ==
    [][lastOp' = "update_agents" =>
          LET reward_dict == args'[1]
              expected(n) ==
                  CASE n \in DOMAIN reward_dict -> reward_dict[n]
                    [] n \notin DOMAIN reward_dict
                           /\ "total" \in DOMAIN reward_dict ->
                           reward_dict["total"]
                    [] OTHER -> Zero
          IN  /\ Len(agent_update_calls') = Len(agents)
              /\ \A i \in DOMAIN agents :
                     /\ agent_update_calls'[i] =
                            <<agents[i], expected(agents[i]), args'[2]>>
                     /\ agent_performance'[agents[i]] =
                            Append(agent_performance[agents[i]],
                                   expected(agents[i]))
              /\ agent_weights' =
                     normalize_weights(
                         recent_weights(agent_weights, agent_performance'))
      ]_vars

\* a call whose reward_dict names one agent and "total" with different
\* rewards, completing the window of three agents
C14_Witness ==
    /\ UpdatedAgents
    /\ Len(agents) = 3
    /\ DOMAIN args[1] = {"agent_a", "total"}
    /\ args[1]["agent_a"] # args[1]["total"]
    /\ Last(agent_performance["agent_a"]) = args[1]["agent_a"]
    /\ Last(agent_performance["agent_b"]) = args[1]["total"]
    /\ Len(agent_performance["agent_b"]) = window

----------------------------------------------------------------------------
(* Properties of refine_segmentation *)

Refined == lastOp = "refine_segmentation"

\* the agents of the last refinement that returned a tensor
Refining == {n \in DOMAIN features : features[n] # None}

\* sum over the refining agents of weight * refinement at pixel p
RefinedSum(p) ==
    SetSum(Refining, [n \in Refining |->
                         RatMul(agent_weights[n], features[n].value[p])])

RefinedWeight == SetSum(Refining, [n \in Refining |-> agent_weights[n]])

\* C15: refine_segmentation(initial_preds) returns initial_preds when every
\* agent's apply_action returned None, and when the coordinator has no
\* agents; it does not raise.
C15_NoRefinementReturnsInitial ==
    (Refined /\ Refining = {}) => ret = Value(args[1])

\* three agents, none of which returned a refinement
C15_Witness ==
    /\ Refined
    /\ Len(agents) = 3
    /\ \A n \in NamesOf(agents) : features[n] = None
    /\ args[1] # [p \in Pixels |-> Zero]
    /\ ret.kind = "value"

\* C16: when at least one agent returned a refinement, the result is 1.0
\* exactly at the pixels where the mean of the returned refinements,
\* weighted by agent_weights, exceeds 0.5; agents that returned None count
\* neither in the sum nor in the total weight.  In every case the tensor
\* last passed to update_segmentation is the tensor returned.
C16_RefinedIsThresholdedWeightedMean ==
    Refined =>
        /\ current_segmentation = ret
        /\ Refining # {} =>
               /\ ret.kind = "value"
               /\ \A p \in Pixels :
                      ret.value[p] =
                          IF RatLt(Half, RatDiv(RefinedSum(p), RefinedWeight))
                          THEN One ELSE Zero

\* unequal weights, one agent returned None, the other two disagree at a
\* pixel, and the result differs from initial_preds
C16_Witness ==
    /\ Refined
    /\ Len(agents) = 3
    /\ Cardinality(Refining) = 2
    /\ \E n, m \in Refining : /\ agent_weights[n] # agent_weights[m]
                              /\ features[n].value[1] # features[m].value[1]
    /\ ret.value # args[1]

----------------------------------------------------------------------------
(* Properties of the FGBalanceAgent *)

Neg(x) == RatMul(<<-1, 1>>, x)

\* the change of the segmentation threshold made by a step
ThresholdChange == RatAdd(segmentation_threshold', Neg(segmentation_threshold))

\* C17: started at threshold 0.5, after any decide and apply_action calls
\* the segmentation threshold is within [min_threshold, max_threshold] =
\* [0.1, 0.9], and one call changes it by 0 or by exactly threshold_step
\* (0.05) up or down, unless it is clamped to a bound.
C17_ThresholdWithinBounds ==
    /\ [](InRange(segmentation_threshold, min_threshold, max_threshold))
    /\ [][lastOp' \in {"decide", "apply_action"} =>
             \/ ThresholdChange \in {Zero, threshold_step, Neg(threshold_step)}
             \/ segmentation_threshold' \in {min_threshold, max_threshold}
         ]_vars

\* decide chose to increase and the threshold is at its upper bound
C17_Witness ==
    /\ lastOp = "decide"
    /\ ret.kind = "action"
    /\ ret.action_type = 0
    /\ segmentation_threshold = max_threshold

\* the threshold decide leaves for the choice that corresponds to a value
ConsistentWithDecide(action_value) ==
    segmentation_threshold' =
        IF RatLt(action_cut, action_value)
        THEN decided_threshold(segmentation_threshold, 0)
        ELSE IF RatLt(action_value, Neg(action_cut))
        THEN decided_threshold(segmentation_threshold, 1)
        ELSE decided_threshold(segmentation_threshold, 2)

\* C18: from any threshold, apply_action with a value above 0.33 leaves the
\* threshold decide leaves when it chooses increase, a value below -0.33
\* the one of decrease, and a value in [-0.33, 0.33] the one of hold.
C18_PathwaysConsistent ==
    [][lastOp' = "apply_action" => ConsistentWithDecide(args'[1])]_vars

\* C18 as amended: the same, for the apply_action calls made while the
\* state manager holds a current prediction (without one apply_action
\* returns None and leaves the threshold alone).
C18_PathwaysConsistentWithPrediction ==
    [][(lastOp' = "apply_action" /\ ret' # None) =>
          ConsistentWithDecide(args'[1])]_vars

\* apply_action at the cut point itself, after the threshold has moved
C18_Witness ==
    /\ lastOp = "apply_action"
    /\ args = <<action_cut, TRUE>>
    /\ ret.kind = "prediction"
    /\ segmentation_threshold = <<11, 20>>

\* C19: learn(reward) returns {} and makes no policy update when fewer
\* than update_frequency steps have passed since last_update_step; a policy
\* update happens only in a call where at least update_frequency steps have
\* passed.
C19_LearnWaitsForUpdateFrequency ==
    [][lastOp' = "learn" =>
          /\ current_step' - last_update_step < FG_update_frequency =>
                 (ret' = EmptyDict /\ policy_updates' = policy_updates)
          /\ policy_updates' # policy_updates =>
                 current_step' - last_update_step >= FG_update_frequency
      ]_vars

\* a learn call that had two actions and two rewards and returned {}, one
\* step after the last learning step
C19_Witness ==
    /\ lastOp = "learn"
    /\ ret = EmptyDict
    /\ Len(action_history) >= 2
    /\ Len(reward_history) >= 2
    /\ observation_history # <<>>
    /\ current_step - last_update_step = 1

\* C20: learn makes its policy update only when at least two observations,
\* two actions and two rewards are recorded; in every other state reached
\* by observe, decide and learn calls it returns {} and does not raise.
C20_LearnNeedsTwoOfEach ==
    lastOp = "learn" =>
        /\ ret.kind # "raise"
        /\ IF /\ Len(observation_history) >= 2
              /\ Len(action_history) >= 2
              /\ Len(reward_history) >= 2
           THEN ret.kind \in {"metrics", "empty"}
           ELSE ret = EmptyDict

\* C21: observe returns {} when the image, the mask or the prediction is
\* absent and then leaves target_fg_ratio, avg_fg_ratio,
\* segmentation_threshold and observation_history unchanged; decide given
\* the empty observation returns {} and leaves segmentation_threshold and
\* action_history unchanged.
C21_EmptyObservationIsNoOp ==
    [][/\ (lastOp' = "observe" /\ ret' # Observation) =>
              /\ ret' = EmptyDict
              /\ UNCHANGED <<target_fg_ratio, avg_fg_ratio,
                             segmentation_threshold, observation_history>>
       /\ (lastOp' = "decide" /\ args'[1] = EmptyDict) =>
              /\ ret' = EmptyDict
              /\ UNCHANGED <<segmentation_threshold, action_history>>
      ]_vars

\* decide was given {} by an agent whose moving average and threshold have
\* moved before
C21_Witness ==
    /\ lastOp = "decide"
    /\ args = <<EmptyDict>>
    /\ ret = EmptyDict
    /\ avg_fg_ratio # Half
    /\ segmentation_threshold # initial_threshold

----------------------------------------------------------------------------
(* Further properties of the coordinator *)

\* C22: _resolve_conflicts never raises: in every mode, recognized or not,
\* and for every set of agent decisions, the empty one included, it
\* returns; in an unrecognized mode with at least one decision it returns
\* the first agent's decision.
C22_ResolveNeverRaises ==
    Resolved =>
        /\ ret.kind # "raise"
        /\ (/\ conflict_resolution
                   \notin {"weighted_average", "priority", "voting"}
            /\ DOMAIN args[1] # {}) =>
               ret = Value(args[1][Head(KeysInOrder(args[1]))])

----------------------------------------------------------------------------
(* SegmentationAgentCoordinator: process_observation and make_decision.    *)
(* Agent names and feature keys are strings, modelled as sequences of      *)
(* characters; a dictionary with string keys is the sequence of its        *)
(* <<key, value>> items in insertion order.                                *)

\* agent names: two plain ones and one that contains the separator
NamespaceNames == {<<"f">>, <<"b">>, <<"f", "_", "b">>}

\* feature keys in the order an agent inserts them
NamespaceKeys == <<<<"x">>, <<"b", "_", "x">>>>

\* lists of one or two agents with distinct names
NamespaceAgentLists ==
    {<<n>> : n \in NamespaceNames} \cup
    {pair \in NamespaceNames \X NamespaceNames : pair[1] # pair[2]}

\* what observe of the agent called name can return: any of the keys, each
\* with a value of its own
FeatureDicts(name) ==
    {[i \in DOMAIN keys |-> <<keys[i], <<name, keys[i]>>>>] :
        keys \in {SelectSeq(NamespaceKeys, LAMBDA k : k \in chosen) :
                     chosen \in SUBSET {NamespaceKeys[j] :
                                           j \in DOMAIN NamespaceKeys}}}

\* f"{agent.name}_"
name_prefix(name) == name \o <<"_">>

\* str.startswith
startswith(string, prefix) ==
    /\ Len(string) >= Len(prefix)
    /\ SubSeq(string, 1, Len(prefix)) = prefix

\* str.replace(old, ""): every occurrence of old is removed, left to right
RECURSIVE replace(_, _)
replace(string, old) ==
    IF string = <<>>
    THEN <<>>
    ELSE IF startswith(string, old)
    THEN replace(SubSeq(string, Len(old) + 1, Len(string)), old)
    ELSE <<Head(string)>> \o replace(Tail(string), old)

\* dict[key] = value
set_item(dict, key, value) ==
    IF \E i \in DOMAIN dict : dict[i][1] = key
    THEN [i \in DOMAIN dict |->
             IF dict[i][1] = key THEN <<key, value>> ELSE dict[i]]
    ELSE Append(dict, <<key, value>>)

\* the inner loop of process_observation over one agent's features
RECURSIVE namespaced(_, _, _)
namespaced(dict, name, agent_features) ==
    IF agent_features = <<>>
    THEN dict
    ELSE namespaced(set_item(dict,
                             name_prefix(name) \o Head(agent_features)[1],
                             Head(agent_features)[2]),
                    name, Tail(agent_features))

\* the outer loop of process_observation over the agents
RECURSIVE collect_features(_, _, _)
collect_features(dict, names, observed) ==
    IF names = <<>>
    THEN dict
    ELSE collect_features(namespaced(dict, Head(names), observed[Head(names)]),
                          Tail(names), observed)

\* the dictionary comprehension of make_decision for one agent
RECURSIVE agent_features_of(_, _, _)
agent_features_of(dict, name, all_features) ==
    IF all_features = <<>>
    THEN dict
    ELSE agent_features_of(
             IF startswith(Head(all_features)[1], name_prefix(name))
             THEN set_item(dict,
                           replace(Head(all_features)[1], name_prefix(name)),
                           Head(all_features)[2])
             ELSE dict,
             name, Tail(all_features))

\* observed[n] is what agent n returns from observe
process_observation(observed) ==
    /\ lastOp \in {"__init__", "make_decision"}
    /\ current_image' = "image"
    /\ agent_calls' = [i \in DOMAIN agents |->
                          <<agents[i], "observe", observed[agents[i]]>>]
    /\ features' = collect_features(<<>>, agents, observed)
    /\ ret' = Value(features')
    /\ lastOp' = "process_observation"
    /\ args' = <<"image">>
    /\ UNCHANGED <<conflict_resolution, agent_weights, agents,
                   agent_performance, agent_update_calls,
                   current_segmentation, calls, current_prediction, files>>
    /\ UNCHANGED hpVars
    /\ UNCHANGED fgVars

\* make_decision on the features process_observation returned, as act
\* calls it; decisions[n] is what agent n returns from decide
make_decision(decisions) ==
    /\ lastOp = "process_observation"
    /\ agent_calls' = [i \in DOMAIN agents |->
                          <<agents[i], "decide",
                            agent_features_of(<<>>, agents[i], ret.value)>>]
    /\ LET combined_decision == resolve_conflicts(decisions)
       IN  /\ ret' = combined_decision
           /\ current_prediction' = IF combined_decision.kind = "raise"
                                    THEN current_prediction
                                    ELSE combined_decision
    /\ lastOp' = "make_decision"
    /\ args' = <<ret.value>>
    /\ UNCHANGED <<conflict_resolution, agent_weights, current_image, agents,
                   agent_performance, agent_update_calls,
                   current_segmentation, features, calls, files>>
    /\ UNCHANGED hpVars
    /\ UNCHANGED fgVars

\* a coordinator constructed over one or two agents
InitNamespace ==
    /\ HyperparameterAgentIdle
    /\ FGBalanceAgentIdle
    /\ conflict_resolution = "weighted_average"
    /\ agents \in NamespaceAgentLists
    /\ agent_weights = [n \in NamesOf(agents) |-> One]
    /\ agent_performance = [n \in NamesOf(agents) |-> <<>>]
    /\ agent_update_calls = <<>>
    /\ current_image = "None"
    /\ current_segmentation = None
    /\ features = <<>>
    /\ calls = 0
    /\ agent_calls = <<>>
    /\ current_prediction = None
    /\ files = <<>>
    /\ lastOp = "__init__"
    /\ args = <<>>
    /\ ret = None

NextNamespace ==
    \/ \E observed \in
           {f \in [NamesOf(agents) -> UNION {FeatureDicts(n) :
                                               n \in NamesOf(agents)}] :
               \A n \in NamesOf(agents) : f[n] \in FeatureDicts(n)} :
           process_observation(observed)
    \/ \E decisions \in [NamesOf(agents) -> Tensors] :
           make_decision(decisions)

SpecNamespace == InitNamespace /\ [][NextNamespace]_vars

\* the items of a dictionary
Items(dict) == {dict[i] : i \in DOMAIN dict}

\* C23: when make_decision is fed the map process_observation returned,
\* every agent's decide receives exactly the key/value pairs that agent
\* returned from observe, under their original keys, and none of another
\* agent's.
C23_AgentsGetTheirOwnFeatures ==
    [][lastOp' = "make_decision" =>
          \A i \in DOMAIN agents :
              Items(agent_calls'[i][3]) = Items(agent_calls[i][3])]_vars

----------------------------------------------------------------------------
(* Further properties of the ClassWeightsAgent.                            *)

\* C24: from the weights the agent holds, raising the action component of
\* class i never lowers class i's renormalized weight and never lowers the
\* ratio of class i's weight to another class's weight.  The weights are
\* set by the constructor and by update_hyperparameter only.
C24_MonotoneInEachComponent ==
    (/\ cls = "ClassWeightsAgent"
     /\ lastOp \in {"__init__", "update_hyperparameter"}) =>
        \A i \in Classes, action \in [Classes -> ActionSet] :
            \A raised \in {a \in ActionSet : a > action[i]} :
                LET low == CW_action_to_hyperparameter(current_class_weights,
                                                       action)
                    high == CW_action_to_hyperparameter(
                                current_class_weights,
                                [action EXCEPT ![i] = raised])
                IN  /\ RatLeq(low[i], high[i])
                    /\ \A j \in Classes \ {i} :
                           RatLeq(RatDiv(low[i], low[j]),
                                  RatDiv(high[i], high[j]))

\* committed weights from which raising class 1's component strictly raises
\* its weight and its ratio to class 2
C24_Witness ==
    /\ cls = "ClassWeightsAgent"
    /\ lastOp = "update_hyperparameter"
    /\ LET low == CW_action_to_hyperparameter(current_class_weights, <<0, 0>>)
           high == CW_action_to_hyperparameter(current_class_weights, <<1, 0>>)
       IN  /\ RatLt(low[1], high[1])
           /\ RatLt(RatDiv(low[1], low[2]), RatDiv(high[1], high[2]))

\* the action zero-padded or truncated to num_classes components
PaddedOrTruncated(action) ==
    [i \in Classes |-> IF i <= Len(action) THEN action[i] ELSE 0]

C28_ZeroActionIsIdentity ==
    (/\ cls = "ClassWeightsAgent"
     /\ lastOp = "update_hyperparameter") =>
        CW_action_to_hyperparameter(current_class_weights,
                                    [i \in Classes |-> 0])
            = current_class_weights

----------------------------------------------------------------------------
(* FGBalanceAgent: checkpoints.  policy_updates stands for the parameters  *)
(* of the networks and the optimizer, which change by optimizer steps      *)
(* only.                                                                   *)

\* save: the file holds the networks and the agent parameters
FG_save ==
    /\ checkpoint' = [kind |-> "agent",
                      networks |-> policy_updates,
                      segmentation_threshold |-> segmentation_threshold,
                      target_fg_ratio |-> target_fg_ratio,
                      avg_fg_ratio |-> avg_fg_ratio,
                      last_update_step |-> last_update_step,
                      action_history |-> action_history,
                      reward_history |-> reward_history]
    /\ ret' = None
    /\ lastOp' = "save"
    /\ args' = <<>>
    /\ UNCHANGED <<segmentation_threshold, target_fg_ratio, avg_fg_ratio,
                   last_update_step, observation_history, action_history,
                   reward_history, current_step, policy_updates>>
    /\ UNCHANGED hpVars
    /\ UNCHANGED coVars

\* _save_agent_state: the file holds the networks, the threshold and the two
\* foreground ratios
FG_save_agent_state ==
    /\ checkpoint' = [kind |-> "agent_state",
                      networks |-> policy_updates,
                      segmentation_threshold |-> segmentation_threshold,
                      target_fg_ratio |-> target_fg_ratio,
                      avg_fg_ratio |-> avg_fg_ratio]
    /\ ret' = None
    /\ lastOp' = "_save_agent_state"
    /\ args' = <<>>
    /\ UNCHANGED <<segmentation_threshold, target_fg_ratio, avg_fg_ratio,
                   last_update_step, observation_history, action_history,
                   reward_history, current_step, policy_updates>>
    /\ UNCHANGED hpVars
    /\ UNCHANGED coVars

\* load: torch.load raises when there is no file; a file written by
\* _save_agent_state has no "learning_rate" entry, which raises after the
\* networks, the threshold and the ratios are assigned
FG_load ==
    /\ IF checkpoint = Missing
       THEN /\ ret' = Raise("FileNotFoundError")
            /\ UNCHANGED <<segmentation_threshold, target_fg_ratio,
                           avg_fg_ratio, last_update_step, action_history,
                           reward_history, policy_updates>>
       ELSE /\ policy_updates' = checkpoint.networks
            /\ segmentation_threshold' = checkpoint.segmentation_threshold
            /\ target_fg_ratio' = checkpoint.target_fg_ratio
            /\ avg_fg_ratio' = checkpoint.avg_fg_ratio
            /\ IF checkpoint.kind = "agent"
               THEN /\ last_update_step' = checkpoint.last_update_step
                    /\ action_history' = checkpoint.action_history
                    /\ reward_history' = checkpoint.reward_history
                    /\ ret' = None
               ELSE /\ ret' = Raise("KeyError")
                    /\ UNCHANGED <<last_update_step, action_history,
                                   reward_history>>
    /\ lastOp' = "load"
    /\ args' = <<>>
    /\ UNCHANGED <<observation_history, current_step, checkpoint>>
    /\ UNCHANGED hpVars
    /\ UNCHANGED coVars

\* _load_agent_state: False when there is no file, else the networks, the
\* threshold and the ratios are restored
FG_load_agent_state ==
    /\ IF checkpoint = Missing
       THEN /\ ret' = Value(FALSE)
            /\ UNCHANGED <<segmentation_threshold, target_fg_ratio,
                           avg_fg_ratio, policy_updates>>
       ELSE /\ policy_updates' = checkpoint.networks
            /\ segmentation_threshold' = checkpoint.segmentation_threshold
            /\ target_fg_ratio' = checkpoint.target_fg_ratio
            /\ avg_fg_ratio' = checkpoint.avg_fg_ratio
            /\ ret' = Value(TRUE)
    /\ lastOp' = "_load_agent_state"
    /\ args' = <<>>
    /\ UNCHANGED <<last_update_step, observation_history, action_history,
                   reward_history, current_step, checkpoint>>
    /\ UNCHANGED hpVars
    /\ UNCHANGED coVars

\* an agent that observes, decides, and saves and loads its checkpoint
NextCheckpoint ==
    \/ \E available \in BOOLEAN, gt_fg_ratio \in {Half, One} :
           observe(available, gt_fg_ratio, Half)
    \/ \E observation \in ObservationsSeen, action \in ActionTypes :
           decide(observation, action)
    \/ FG_save
    \/ FG_save_agent_state
    \/ FG_load
    \/ FG_load_agent_state

SpecCheckpoint == InitFG /\ [][NextCheckpoint]_vars

\* C26: loading from a path where no file exists returns False rather than
\* raising, and leaves the network parameters, segmentation_threshold,
\* target_fg_ratio and avg_fg_ratio as they were.
C26_LoadOfMissingFileReturnsFalse ==
    [][(/\ lastOp' \in {"load", "_load_agent_state"}
        /\ checkpoint = Missing) =>
           /\ ret' = Value(FALSE)
           /\ UNCHANGED <<policy_updates, segmentation_threshold,
                          target_fg_ratio, avg_fg_ratio>>]_vars

----------------------------------------------------------------------------
(* SegmentationAgentCoordinator: persistence.  The agents are              *)
(* FGBalanceAgents; files maps the file names of one checkpoint directory  *)
(* to their contents, an agent's file being named by the agent.            *)

\* the file save_agents and load_agents use for the coordinator
coordinator_path == "agent_coordinator.pt"

\* the path handed to save and load
SavePaths == {"coordinator.pt", coordinator_path}

\* the checkpoint directory after the files in written are (over)written
write_files(written) ==
    [name \in DOMAIN files \cup DOMAIN written |->
        IF name \in DOMAIN written THEN written[name] ELSE files[name]]

\* agent.save for every agent
agent_files == [n \in NamesOf(agents) |-> [kind |-> "agent"]]

\* what FGBalanceAgent.load gives the coordinator: None after loading, an
\* exception when there is no file
agent_load(name) ==
    IF name \in DOMAIN files THEN None ELSE Raise("FileNotFoundError")

\* the agent.load calls of a loop over names, up to the first that raises
RECURSIVE load_calls(_)
load_calls(names) ==
    IF names = <<>>
    THEN <<>>
    ELSE IF agent_load(Head(names)).kind = "raise"
    THEN <<<<Head(names), "load", agent_load(Head(names))>>>>
    ELSE <<<<Head(names), "load", None>>>> \o load_calls(Tail(names))

\* the exception of the last call, if it raised
raised_by(loads) ==
    IF loads # <<>> /\ loads[Len(loads)][3].kind = "raise"
    THEN loads[Len(loads)][3]
    ELSE None

\* not agent.load(agent_path)
not(result) == result = None \/ result = Value(FALSE)

\* a new coordinator over the same agents
construct(mode) ==
    /\ conflict_resolution' = mode
    /\ agent_weights' = [n \in NamesOf(agents) |-> One]
    /\ agent_performance' = [n \in NamesOf(agents) |-> <<>>]
    /\ agent_update_calls' = <<>>
    /\ agent_calls' = <<>>
    /\ lastOp' = "__init__"
    /\ args' = <<mode>>
    /\ ret' = None
    /\ UNCHANGED <<current_image, agents, current_segmentation, features,
                   calls, current_prediction, files>>
    /\ UNCHANGED hpVars
    /\ UNCHANGED fgVars

save_agents ==
    /\ files' = write_files(
           agent_files @@
           (coordinator_path :>
                [agent_weights |-> agent_weights,
                 agent_performance |-> agent_performance,
                 conflict_resolution |-> conflict_resolution]))
    /\ agent_calls' = [i \in DOMAIN agents |-> <<agents[i], "save", None>>]
    /\ ret' = Value([n \in NamesOf(agents) |-> None])
    /\ lastOp' = "save_agents"
    /\ args' = <<>>
    /\ UNCHANGED <<conflict_resolution, agent_weights, current_image, agents,
                   agent_performance, agent_update_calls,
                   current_segmentation, features, calls,
                   current_prediction>>
    /\ UNCHANGED hpVars
    /\ UNCHANGED fgVars

load_agents ==
    /\ LET loads == load_calls(agents)
           checkpoint_file == files[coordinator_path]
       IN  /\ agent_calls' = loads
           /\ IF raised_by(loads) # None
              THEN /\ ret' = raised_by(loads)
                   /\ UNCHANGED <<agent_weights, agent_performance,
                                  conflict_resolution>>
              ELSE IF coordinator_path \notin DOMAIN files
              THEN /\ ret' = Value(\A i \in DOMAIN loads : ~not(loads[i][3]))
                   /\ UNCHANGED <<agent_weights, agent_performance,
                                  conflict_resolution>>
              ELSE IF "agent_weights" \notin DOMAIN checkpoint_file
              THEN /\ ret' = Value(FALSE)
                   /\ UNCHANGED <<agent_weights, agent_performance,
                                  conflict_resolution>>
              ELSE /\ agent_weights' = checkpoint_file.agent_weights
                   /\ agent_performance' = checkpoint_file.agent_performance
                   /\ conflict_resolution' =
                          checkpoint_file.conflict_resolution
                   /\ ret' = Value(\A i \in DOMAIN loads : ~not(loads[i][3]))
    /\ lastOp' = "load_agents"
    /\ args' = <<>>
    /\ UNCHANGED <<current_image, agents, agent_update_calls,
                   current_segmentation, features, calls, current_prediction,
                   files>>
    /\ UNCHANGED hpVars
    /\ UNCHANGED fgVars

save(path) ==
    /\ files' = write_files(
           (path :> [conflict_resolution |-> conflict_resolution,
                     agent_names |-> agents]) @@
           agent_files)
    /\ agent_calls' = [i \in DOMAIN agents |-> <<agents[i], "save", None>>]
    /\ ret' = None
    /\ lastOp' = "save"
    /\ args' = <<path>>
    /\ UNCHANGED <<conflict_resolution, agent_weights, current_image, agents,
                   agent_performance, agent_update_calls,
                   current_segmentation, features, calls,
                   current_prediction>>
    /\ UNCHANGED hpVars
    /\ UNCHANGED fgVars

load(path) ==
    /\ IF path \notin DOMAIN files
       THEN /\ ret' = Raise("FileNotFoundError")
            /\ UNCHANGED <<conflict_resolution, agent_calls>>
       ELSE /\ conflict_resolution' = files[path].conflict_resolution
            /\ IF "agent_names" \notin DOMAIN files[path]
               THEN /\ ret' = Raise("KeyError")
                    /\ UNCHANGED agent_calls
               ELSE LET loads ==
                            load_calls(SelectSeq(
                                files[path].agent_names,
                                LAMBDA n : n \in NamesOf(agents)))
                    IN  /\ agent_calls' = loads
                        /\ ret' = raised_by(loads)
    /\ lastOp' = "load"
    /\ args' = <<path>>
    /\ UNCHANGED <<agent_weights, current_image, agents, agent_performance,
                   agent_update_calls, current_segmentation, features, calls,
                   current_prediction, files>>
    /\ UNCHANGED hpVars
    /\ UNCHANGED fgVars

NextPersist ==
    \/ \E mode \in Modes : construct(mode)
    \/ save_agents
    \/ load_agents
    \/ \E path \in SavePaths : save(path)
    \/ \E path \in SavePaths : load(path)

SpecPersist == InitCoord /\ [][NextPersist]_vars

\* the file records the three coordinator fields
RecordsCoordinator(file) ==
    {"agent_weights", "agent_performance", "conflict_resolution"}
        \subseteq DOMAIN file

\* the coordinator holds what the file records
RestoredFrom(file) ==
    /\ RecordsCoordinator(file)
    /\ agent_weights = file.agent_weights
    /\ agent_performance = file.agent_performance
    /\ conflict_resolution = file.conflict_resolution

\* C27: the coordinator file a save entry point has written records
\* agent_weights, agent_performance and conflict_resolution as the
\* coordinator holds them, and a load entry point that returns leaves the
\* coordinator with what the file it read records.
C27_CoordinatorRoundTrip ==
    /\ lastOp = "save_agents" => RestoredFrom(files[coordinator_path])
    /\ lastOp = "save" => RestoredFrom(files[args[1]])
    /\ (lastOp = "load_agents" /\ ret.kind # "raise"
            /\ coordinator_path \in DOMAIN files) =>
           RestoredFrom(files[coordinator_path])
    /\ (lastOp = "load" /\ ret.kind # "raise") => RestoredFrom(files[args[1]])

\* every agent of the coordinator has a checkpoint file
AgentFilesExist == NamesOf(agents) \subseteq DOMAIN files

\* C29: load_agents returns True when every agent's checkpoint exists and
\* loads and the coordinator file loads, and False when an agent's load
\* fails.
C29_LoadAgentsFlag ==
    lastOp = "load_agents" =>
        /\ (/\ AgentFilesExist
            /\ coordinator_path \in DOMAIN files
            /\ RecordsCoordinator(files[coordinator_path])) =>
               ret = Value(TRUE)
        /\ ~AgentFilesExist => ret = Value(FALSE)

----------------------------------------------------------------------------
(* Further properties of FGBalanceAgent.learn.                             *)

\* C30: a learn call that returns {} leaves last_update_step as it was;
\* last_update_step moves only in a call that performs a policy update.
C30_EmptyLearnKeepsSchedule ==
    [][/\ (lastOp' = "learn" /\ ret' = EmptyDict) =>
              last_update_step' = last_update_step
       /\ last_update_step' # last_update_step =>
              policy_updates' = policy_updates + 1]_vars
====
